---- MODULE Spec2Model ----
(***************************************************************************)
(* DirectWriter of cls-nordic/excelize: a worksheet is streamed row by row *)
(* into a buffer and flushed to an io.Writer that a second goroutine       *)
(* attaches with WriteTo.                                                  *)
(*                                                                         *)
(* The output is modelled as a sequence of XML chunks (records); the       *)
(* length of a byte slice is the number of its chunks.  A producer         *)
(* goroutine per stream calls AddRow / SetColWidth / SetWait / Close, a    *)
(* consumer goroutine calls WriteTo on the streams of its plan in order.   *)
(***************************************************************************)
EXTENDS Integers, Sequences, FiniteSets, TLC

\* ------------------------------------------------------------- bounds
MaxRows == 2        \* AddRow calls per stream
MaxCols == 1        \* accepted SetColWidth calls per stream
MaxCloses == 2      \* Close calls per stream
MaxFails == 1       \* sink writes that return an error, over a behaviour
SmallBuf == 2       \* a maxBufferSize every whole row exceeds
LargeBuf == 6       \* a maxBufferSize one row stays below
MaxStyle == 2       \* style ids 0 .. MaxStyle handed to the cell encoder

\* --------------------------------------------------- program constants
\* the limits SetColWidth tests; the package declares them outside direct.go
TotalColumns == 16384
MaxColumnWidth == 255

\* ------------------------------------------------------------- inputs
BufSizes == {SmallBuf, LargeBuf}

\* Cell{StyleID, Formula, Value}
MkCell(v, s, f) == [Value |-> v, StyleID |-> s, Formula |-> f]

\* rows handed to AddRow: values and the kind of RowOpts
RowInputs ==
  { [values |-> <<MkCell("foo", 0, "")>>, opts |-> "none"],
    [values |-> <<MkCell("bar ", 1, ""), MkCell("unsupported", 0, "")>>, opts |-> "none"],
    [values |-> <<MkCell("foo", 0, "")>>, opts |-> "bad"] }

\* (min, max, width) handed to SetColWidth
ColInputs ==
  { <<3, 1, 20>>, <<1, 2, 20>>, <<0, 1, 20>>, <<1, 0, 20>>,
    <<1, TotalColumns + 1, 20>>, <<TotalColumns + 1, 1, 20>>,
    <<1, 1, MaxColumnWidth + 1>> }

\* ------------------------------------------------- sequences of chunks
Take(q, n) == SubSeq(q, 1, n)
Drop(q, n) == SubSeq(q, n + 1, Len(q))
IsPrefix(p, q) == Len(p) <= Len(q) /\ Take(q, Len(p)) = p

\* ------------------------------------------------- external encoders
\* setCellValFunc: the canonical (V, T, xml:space) of a value, or an error
setCellValFunc(c, val) ==
  CASE val = "foo"  -> [err |-> FALSE, c |-> [c EXCEPT !.T = "str", !.V = "foo"]]
    [] val = "bar " -> [err |-> FALSE,
                        c |-> [c EXCEPT !.T = "str", !.V = "bar ", !.XMLSpace = "preserve"]]
    [] val = "int123" -> [err |-> FALSE, c |-> [c EXCEPT !.V = "123"]]
    [] OTHER        -> [err |-> TRUE, c |-> c]

\* marshalRowAttrs: the attribute text of the row options, or an error
marshalRowAttrs(opts) ==
  CASE opts = "hidden" -> [err |-> FALSE, attrs |-> <<[k |-> "attrs", a |-> "hidden"]>>]
    [] opts = "bad"    -> [err |-> TRUE, attrs |-> <<>>]
    [] OTHER           -> [err |-> FALSE, attrs |-> <<>>]

\* ------------------------------------------------------ cell encoder
\* appendCellNoRef with a mutated style test (the variant of direct.go)
appendCellNoRefGt1(dst, c) ==
  Append(dst, [k |-> "c",
               space |-> IF c.XMLSpace # "" THEN <<c.XMLSpace>> ELSE <<>>,
               s |-> IF c.S > 1 THEN <<c.S>> ELSE <<>>,
               t |-> IF c.T # "" THEN <<c.T>> ELSE <<>>,
               f |-> IF c.F # "" THEN <<c.F>> ELSE <<>>,
               v |-> IF c.V # "" THEN <<c.V>> ELSE <<>>])

\* one <c ...>...</c> element: each attribute or child is present (a
\* one-element sequence) or absent (the empty sequence)
appendCellNoRef(dst, c) ==
  Append(dst, [k |-> "c",
               space |-> IF c.XMLSpace # "" THEN <<c.XMLSpace>> ELSE <<>>,
               s |-> IF c.S # 0 THEN <<c.S>> ELSE <<>>,
               t |-> IF c.T # "" THEN <<c.T>> ELSE <<>>,
               f |-> IF c.F # "" THEN <<c.F>> ELSE <<>>,
               v |-> IF c.V # "" THEN <<c.V>> ELSE <<>>])

\* ------------------------------------------------------------ header
XMLProlog == [k |-> "prolog"]
SheetDataOpen == [k |-> "<sheetData>"]
SheetDataClose == [k |-> "</sheetData>"]
WorksheetClose == [k |-> "</worksheet>"]
RowOpen(n) == [k |-> "<row", r |-> n]
RowGT == [k |-> ">"]
RowClose == [k |-> "</row>"]
ColsBlock(cols) == [k |-> "<cols>", cols |-> cols]

buildHeader(d) ==
  <<XMLProlog>> \o (IF Len(d.cols) > 0 THEN <<ColsBlock(d.cols)>> ELSE <<>>)
                \o <<SheetDataOpen>>

ClosingElements == <<SheetDataClose, WorksheetClose>>

\* ------------------------------------------------------------- state
VARIABLES
  dw,        \* stream -> the DirectWriter struct (mu: the embedded mutex is held)
  sink,      \* writer -> the chunks that io.Writer has received
  prod,      \* stream -> position of the producer goroutine
  ret,       \* stream -> what the last returned producer call returned
  cons,      \* consumer -> position of the goroutine calling WriteTo
  plan,      \* consumer -> the WriteTo calls it makes, in order
  wret,      \* writer -> what the WriteTo call given that writer returned
  twin,      \* stream -> cols and buf of a second DirectWriter that is given
             \*   the same producer calls and no writer (so it never flushes)
  rowInputs, \* the rows the producer hands to AddRow
  wfail,     \* writer -> a Write on it has returned an error
  failsLeft  \* sink writes that may still return an error

vars == <<dw, sink, prod, ret, cons, plan, wret, twin, rowInputs, wfail, failsLeft>>

Streams == DOMAIN dw
Writers == DOMAIN sink
Consumers == DOMAIN cons

\* every chunk ever appended to the buffer of stream s, in order: the twin
\* is never flushed
Appended(s) == twin[s].buf

NoWriter == 0
NoReturn == [op |-> "none", err |-> "nil", n |-> 0]
NoWriteTo == [path |-> "none", err |-> "nil", n |-> 0, early |-> FALSE]

\* the struct NewDirectWriter returns; placeholder: File.Sheet/Pkg hold sheetPath
NewDirectWriter(maxBufferSize) ==
  [cols |-> <<>>, maxBufferSize |-> maxBufferSize, bytesWritten |-> 0,
   buf |-> <<>>, out |-> NoWriter, done |-> FALSE, rowCount |-> 0,
   waitMode |-> FALSE, mu |-> FALSE, placeholder |-> TRUE]

\* ------------------------------------------------------- io.Writer
\* outcome -1: the write succeeds; outcome n >= 0: it accepts n chunks
\* and returns an error
Write(p, outcome) ==
  IF outcome = -1 THEN [n |-> Len(p), err |-> FALSE]
  ELSE [n |-> outcome, err |-> TRUE]

PartialCounts(p) == 0 .. (IF Len(p) = 0 THEN 0 ELSE Len(p) - 1)

\* the (header outcome, buffer outcome) pairs a flush of d can meet
WriteOutcomes(d, mayFail) ==
  {<<-1, -1>>} \cup
  (IF mayFail
     THEN (IF d.bytesWritten = 0
             THEN {<<n, -1>> : n \in PartialCounts(buildHeader(d))} ELSE {})
          \cup {<<-1, n>> : n \in PartialCounts(d.buf)}
     ELSE {})

FlushOutcomes(d, mayFail) ==
  IF d.mu \/ d.out = NoWriter THEN {<<-1, -1>>} ELSE WriteOutcomes(d, mayFail)

\* tryFlush with the header written on every flush
NeedHeaderAlways(d) == TRUE

\* tryFlush: "if dw.bytesWritten == 0" writes the header first
NeedHeader(d) == d.bytesWritten = 0

\* tryFlush that writes the buffer before the header
tryFlushHeaderLast(d, fo) ==
  IF d.mu
    THEN [d |-> d, sent |-> <<>>, err |-> FALSE, blocked |-> TRUE]
  ELSE IF d.out = NoWriter
    THEN [d |-> d, sent |-> <<>>, err |-> FALSE, blocked |-> FALSE]
  ELSE
    LET hdr == IF NeedHeader(d) THEN buildHeader(d) ELSE <<>>
    IN [d |-> [d EXCEPT !.bytesWritten = @ + Len(hdr) + Len(d.buf), !.buf = <<>>],
        sent |-> d.buf \o hdr, err |-> FALSE, blocked |-> FALSE]

\* tryFlush that honours wait mode, also for the flush of Close
tryFlushUnlessWait(d, fo) ==
  IF d.mu
    THEN [d |-> d, sent |-> <<>>, err |-> FALSE, blocked |-> TRUE]
  ELSE IF d.out = NoWriter \/ d.waitMode
    THEN [d |-> d, sent |-> <<>>, err |-> FALSE, blocked |-> FALSE]
  ELSE
    LET hdr == IF NeedHeader(d) THEN buildHeader(d) ELSE <<>>
    IN [d |-> [d EXCEPT !.bytesWritten = @ + Len(hdr) + Len(d.buf), !.buf = <<>>],
        sent |-> hdr \o d.buf, err |-> FALSE, blocked |-> FALSE]

\* tryFlush.  blocked: Lock never returns (the mutex is held); sent: the
\* chunks the sink accepted; a header error returns without Unlock.
tryFlush(d, fo) ==
  IF d.mu
    THEN [d |-> d, sent |-> <<>>, err |-> FALSE, blocked |-> TRUE]
  ELSE IF d.out = NoWriter
    THEN [d |-> d, sent |-> <<>>, err |-> FALSE, blocked |-> FALSE]
  ELSE
    LET hdr == IF NeedHeader(d) THEN buildHeader(d) ELSE <<>>
        h == IF NeedHeader(d) THEN Write(hdr, fo[1]) ELSE [n |-> 0, err |-> FALSE]
        b == Write(d.buf, fo[2])
    IN IF h.err
         THEN [d |-> [d EXCEPT !.mu = TRUE], sent |-> Take(hdr, h.n),
               err |-> TRUE, blocked |-> FALSE]
       ELSE IF b.err
         THEN [d |-> [d EXCEPT !.bytesWritten = @ + h.n],
               sent |-> hdr \o Take(d.buf, b.n), err |-> TRUE, blocked |-> FALSE]
       ELSE [d |-> [d EXCEPT !.bytesWritten = @ + h.n + b.n, !.buf = <<>>],
             sent |-> hdr \o d.buf, err |-> FALSE, blocked |-> FALSE]

\* the sinks after the flush result r of writer record d
Deliver(d, r) ==
  IF d.out = NoWriter THEN sink ELSE [sink EXCEPT ![d.out] = @ \o r.sent]

Failed(d, r) ==
  IF d.out = NoWriter THEN wfail ELSE [wfail EXCEPT ![d.out] = @ \/ r.err]

Spend(r) == IF r.err THEN failsLeft - 1 ELSE failsLeft

\* ---------------------------------------------------------- producer
RECURSIVE AddCells(_, _)
\* the loop of AddRow over the cells: an encoder error closes the row
AddCells(b, values) ==
  IF values = <<>> THEN [buf |-> b, err |-> FALSE]
  ELSE LET val == Head(values)
           c == [S |-> val.StyleID, F |-> val.Formula, T |-> "", V |-> "",
                 XMLSpace |-> ""]
           e == setCellValFunc(c, val.Value)
       IN IF e.err THEN [buf |-> b \o <<RowClose>>, err |-> TRUE]
          ELSE AddCells(appendCellNoRef(b, e.c), Tail(values))

\* "if len(dw.buf) > dw.maxBufferSize && !dw.waitMode" with the negation dropped
OverThresholdWaitOnly(d) == Len(d.buf) > d.maxBufferSize /\ d.waitMode

\* "if len(dw.buf) > dw.maxBufferSize && !dw.waitMode" without the wait test
OverThresholdIgnoreWait(d) == Len(d.buf) > d.maxBufferSize

\* "if len(dw.buf) > dw.maxBufferSize && !dw.waitMode"
OverThreshold(d) == Len(d.buf) > d.maxBufferSize /\ ~d.waitMode

\* AddRow that numbers the row before counting it
NextRowNumberStale(d) == d.rowCount

\* "dw.rowCount++" and the number written into <row r="..."
NextRowNumber(d) == d.rowCount + 1

\* AddRow that goes on to the threshold test after a value-encoder error
AddRowBufferFlushOnError(d, in) ==
  LET n == NextRowNumber(d)
      b0 == d.buf \o <<RowOpen(n)>>
      m == IF in.opts # "none" THEN marshalRowAttrs(in.opts)
           ELSE [err |-> FALSE, attrs |-> <<>>]
      cells == AddCells(b0 \o m.attrs \o <<RowGT>>, in.values)
      d0 == [d EXCEPT !.rowCount = d.rowCount + 1]
  IN IF m.err THEN [d |-> [d0 EXCEPT !.buf = b0], err |-> "attrs", flush |-> FALSE]
     ELSE LET d2 == [d0 EXCEPT !.buf = IF cells.err THEN cells.buf
                                       ELSE cells.buf \o <<RowClose>>]
          IN [d |-> d2, err |-> IF cells.err THEN "encode" ELSE "nil",
              flush |-> OverThreshold(d2)]

\* AddRow up to its flush: the row is appended to the buffer
AddRowBuffer(d, in) ==
  LET n == NextRowNumber(d)
      b0 == d.buf \o <<RowOpen(n)>>
      m == IF in.opts # "none" THEN marshalRowAttrs(in.opts)
           ELSE [err |-> FALSE, attrs |-> <<>>]
      cells == AddCells(b0 \o m.attrs \o <<RowGT>>, in.values)
      b2 == cells.buf \o <<RowClose>>
      d0 == [d EXCEPT !.rowCount = d.rowCount + 1]
  IN IF m.err THEN [d |-> [d0 EXCEPT !.buf = b0], err |-> "attrs", flush |-> FALSE]
     ELSE IF cells.err
       THEN [d |-> [d0 EXCEPT !.buf = cells.buf], err |-> "encode", flush |-> FALSE]
     ELSE LET d2 == [d0 EXCEPT !.buf = b2]
          IN [d |-> d2, err |-> "nil", flush |-> OverThreshold(d2)]

NoFlush(d) == [d |-> d, sent |-> <<>>, err |-> FALSE, blocked |-> FALSE]

AddRow(s) ==
  /\ prod[s].pc = "idle"
  /\ dw[s].rowCount < MaxRows
  /\ \E in \in rowInputs :
       LET a == AddRowBuffer(dw[s], in)
       IN \E fo \in (IF a.flush THEN FlushOutcomes(a.d, failsLeft > 0) ELSE {<<-1, -1>>}) :
            LET r == IF a.flush THEN tryFlush(a.d, fo) ELSE NoFlush(a.d)
            IN /\ dw' = [dw EXCEPT ![s] = r.d]
               /\ twin' = [twin EXCEPT ![s].buf = @ \o Drop(a.d.buf, Len(dw[s].buf))]
               /\ sink' = Deliver(a.d, r)
               /\ wfail' = Failed(a.d, r)
               /\ failsLeft' = Spend(r)
               /\ prod' = [prod EXCEPT ![s].pc = IF r.blocked THEN "stuck" ELSE "idle",
                                       ![s].rows = @ + 1]
               /\ ret' = IF r.blocked THEN ret
                         ELSE [ret EXCEPT ![s] =
                                 [op |-> "AddRow",
                                  err |-> IF r.err THEN "write" ELSE a.err,
                                  n |-> Len(r.d.buf)]]
  /\ UNCHANGED <<cons, plan, wret, rowInputs>>

\* SetWait that lets wait mode be enabled at any time
WaitAllowedAlways(d) == TRUE

\* SetWait(true): refused once "dw.bytesWritten > 0"
WaitAllowed(d) == ~(d.bytesWritten > 0)

\* the name under which a returned SetWait(b) is recorded
SetWaitOp(b) == IF b THEN "SetWait(true)" ELSE "SetWait(false)"

SetWait(s) ==
  /\ prod[s].pc = "idle"
  /\ \E b \in BOOLEAN :
       /\ IF b /\ ~WaitAllowed(dw[s])
            THEN /\ ret' = [ret EXCEPT ![s] = [op |-> SetWaitOp(b), err |-> "written", n |-> 0]]
                 /\ UNCHANGED dw
            ELSE /\ dw' = [dw EXCEPT ![s].waitMode = b]
                 /\ ret' = [ret EXCEPT ![s] = [op |-> SetWaitOp(b), err |-> "nil", n |-> 0]]
  /\ UNCHANGED <<sink, prod, cons, plan, wret, twin, rowInputs, wfail, failsLeft>>

\* SetColWidth that accepts directives at any time
ColWidthAllowedAlways(d) == TRUE

\* SetColWidth: refused once "dw.bytesWritten > 0"
ColWidthAllowed(d) == ~(d.bytesWritten > 0)

\* SetColWidth without the test "min < 1 || max < 1"
ColWidthErrorNoLower(d, min, max, width) ==
  IF ~ColWidthAllowed(d) THEN "written"
  ELSE IF min > TotalColumns \/ max > TotalColumns THEN "ErrColumnNumber"
  ELSE IF width > MaxColumnWidth THEN "ErrColumnWidth"
  ELSE "nil"

\* the error SetColWidth returns for (min, max, width), "nil" for none
ColWidthError(d, min, max, width) ==
  IF ~ColWidthAllowed(d) THEN "written"
  ELSE IF min > TotalColumns \/ max > TotalColumns THEN "ErrColumnNumber"
  ELSE IF min < 1 \/ max < 1 THEN "ErrColumnNumber"
  ELSE IF width > MaxColumnWidth THEN "ErrColumnWidth"
  ELSE "nil"

\* the <col .../> directive of (min, max, width): min and max swapped if inverted
ColDirective(min, max, width) ==
  [k |-> "<col", min |-> IF min > max THEN max ELSE min,
   max |-> IF min > max THEN min ELSE max, width |-> width]

SetColWidth(s) ==
  /\ prod[s].pc = "idle"
  /\ \E in \in ColInputs :
       LET e == ColWidthError(dw[s], in[1], in[2], in[3])
           et == ColWidthError(twin[s], in[1], in[2], in[3])
       IN /\ e = "nil" => Len(dw[s].cols) < MaxCols
          /\ et = "nil" => Len(twin[s].cols) < MaxCols
          /\ twin' = IF et = "nil"
                       THEN [twin EXCEPT ![s].cols = @ \o <<ColDirective(in[1], in[2], in[3])>>]
                       ELSE twin
          /\ ret' = [ret EXCEPT ![s] = [op |-> "SetColWidth", err |-> e, n |-> 0]]
          /\ dw' = IF e = "nil"
                     THEN [dw EXCEPT ![s].cols = @ \o <<ColDirective(in[1], in[2], in[3])>>]
                     ELSE dw
  /\ prod' = [prod EXCEPT ![s].lateCol = @ \/ dw[s].bytesWritten > 0]
  /\ UNCHANGED <<sink, cons, plan, wret, rowInputs, wfail, failsLeft>>

\* Close up to the return of tryFlush: the closing elements are appended
\* and flushed; on success the producer goes on to close(dw.done)
CloseFlush(s) ==
  /\ prod[s].pc = "idle"
  /\ prod[s].closes < MaxCloses
  /\ LET d1 == [dw[s] EXCEPT !.buf = @ \o ClosingElements]
     IN \E fo \in FlushOutcomes(d1, failsLeft > 0) :
          LET r == tryFlush(d1, fo)
          IN /\ dw' = [dw EXCEPT ![s] = r.d]
             /\ twin' = [twin EXCEPT ![s].buf = @ \o ClosingElements]
             /\ sink' = Deliver(d1, r)
             /\ wfail' = Failed(d1, r)
             /\ failsLeft' = Spend(r)
             /\ prod' = [prod EXCEPT ![s] =
                           [@ EXCEPT !.pc = IF r.blocked THEN "stuck"
                                            ELSE IF r.err THEN "idle" ELSE "closing",
                                      !.closes = @ + 1]]
             /\ ret' = IF r.err
                         THEN [ret EXCEPT ![s] = [op |-> "Close", err |-> "write", n |-> 0]]
                         ELSE ret
  /\ UNCHANGED <<cons, plan, wret, rowInputs>>

\* Close after tryFlush returned nil: the placeholders are deleted and
\* close(dw.done) runs; closing a closed channel panics
CloseSignal(s) ==
  /\ prod[s].pc = "closing"
  /\ dw' = [dw EXCEPT ![s].placeholder = FALSE, ![s].done = TRUE]
  /\ prod' = [prod EXCEPT ![s].pc = IF dw[s].done THEN "panicked" ELSE "idle"]
  /\ ret' = IF dw[s].done THEN ret
            ELSE [ret EXCEPT ![s] = [op |-> "Close", err |-> "nil", n |-> 0]]
  /\ UNCHANGED <<sink, cons, plan, wret, twin, rowInputs, wfail, failsLeft>>

\* ---------------------------------------------------------- consumer
\* a select that never takes "case <-dw.done"
DoneSelectNever(d) == FALSE

\* "case <-dw.done" of the select: the channel has been closed
DoneSelect(d) == d.done

\* a WriteTo that does not wait for the completion signal
DoneNoWait(d) == TRUE

\* "<-dw.done" of the default branch can proceed: the channel has been closed
DoneWait(d) == d.done

\* the replay of part_000: the buffer alone goes to w
ReplayNoHeader(d, fo) ==
  LET b == Write(d.buf, fo[2])
  IN [sent |-> Take(d.buf, b.n), n |-> b.n,
      err |-> IF b.err THEN "write" ELSE "nil", werr |-> b.err]

\* WriteTo on a completed stream: the header and the buffer go to w
Replay(d, fo) ==
  IF d.bytesWritten > 0 THEN [sent |-> <<>>, n |-> 0, err |-> "written", werr |-> FALSE]
  ELSE LET hdr == buildHeader(d)
           h == Write(hdr, fo[1])
           b == Write(d.buf, fo[2])
       IN IF h.err
            THEN [sent |-> Take(hdr, h.n), n |-> h.n, err |-> "write", werr |-> TRUE]
          ELSE [sent |-> hdr \o Take(d.buf, b.n), n |-> h.n + b.n,
                err |-> IF b.err THEN "write" ELSE "nil", werr |-> b.err]

Call(c) == plan[c][cons[c].i]

\* the consumer after the return of its current WriteTo call
Returned(c) ==
  [cons EXCEPT ![c] = [pc |-> IF @.i + 1 > Len(plan[c]) THEN "finished" ELSE "start",
                       i |-> @.i + 1]]

\* WriteTo, the select: a completed stream is replayed to w at once,
\* otherwise the call goes on to take the lock
WriteToSelect(c) ==
  /\ cons[c].pc = "start"
  /\ LET s == Call(c).s
         w == Call(c).w
     IN IF DoneSelect(dw[s])
          THEN \E fo \in (IF dw[s].bytesWritten > 0 THEN {<<-1, -1>>}
                          ELSE WriteOutcomes(dw[s], failsLeft > 0)) :
                 LET r == Replay(dw[s], fo)
                 IN /\ sink' = [sink EXCEPT ![w] = @ \o r.sent]
                    /\ wret' = [wret EXCEPT ![w] = [path |-> "replay", err |-> r.err,
                                                     n |-> r.n, early |-> FALSE]]
                    /\ wfail' = [wfail EXCEPT ![w] = @ \/ r.werr]
                    /\ failsLeft' = IF r.werr THEN failsLeft - 1 ELSE failsLeft
                    /\ cons' = Returned(c)
          ELSE /\ cons' = [cons EXCEPT ![c].pc = "lock"]
               /\ UNCHANGED <<sink, wret, wfail, failsLeft>>
  /\ UNCHANGED <<dw, prod, ret, plan, twin, rowInputs>>

\* WriteTo, default branch: Lock; dw.out = w; Unlock
WriteToAttach(c) ==
  /\ cons[c].pc = "lock"
  /\ ~dw[Call(c).s].mu
  /\ dw' = [dw EXCEPT ![Call(c).s].out = Call(c).w]
  /\ cons' = [cons EXCEPT ![c].pc = "wait"]
  /\ wret' = [wret EXCEPT ![Call(c).w].early =
                dw[Call(c).s].rowCount = 0 /\ prod[Call(c).s].closes = 0]
  /\ UNCHANGED <<sink, prod, ret, plan, twin, rowInputs, wfail, failsLeft>>

\* WriteTo, default branch: <-dw.done; return dw.bytesWritten, nil
WriteToReturn(c) ==
  /\ cons[c].pc = "wait"
  /\ DoneWait(dw[Call(c).s])
  /\ wret' = [wret EXCEPT ![Call(c).w] =
                [@ EXCEPT !.path = "attach", !.err = "nil",
                          !.n = dw[Call(c).s].bytesWritten]]
  /\ cons' = Returned(c)
  /\ UNCHANGED <<dw, sink, prod, ret, plan, twin, rowInputs, wfail, failsLeft>>

\* ----------------------------------------------------- specifications
\* streams S with threshold m each, consumers with the plans P, writers W
Setup(S, m, P, W, R, fails) ==
  /\ dw = [s \in S |-> NewDirectWriter(m)]
  /\ sink = [w \in W |-> <<>>]
  /\ prod = [s \in S |-> [pc |-> "idle", closes |-> 0, rows |-> 0, lateCol |-> FALSE]]
  /\ ret = [s \in S |-> NoReturn]
  /\ plan = P
  /\ cons = [c \in DOMAIN P |-> [pc |-> "start", i |-> 1]]
  /\ wret = [w \in W |-> NoWriteTo]
  /\ twin = [s \in S |-> [cols |-> <<>>, buf |-> <<>>, bytesWritten |-> 0]]
  /\ rowInputs = R
  /\ wfail = [w \in W |-> FALSE]
  /\ failsLeft = fails

OnePlan == [c \in {1} |-> <<[s |-> 1, w |-> 1]>>]

\* one stream, one goroutine calling WriteTo once, a writer that accepts
\* every write
Init == \E m \in BufSizes : Setup({1}, m, OnePlan, {1}, RowInputs, 0)

\* the same with a writer whose writes may return an error
InitFaulty == \E m \in BufSizes : Setup({1}, m, OnePlan, {1}, RowInputs, MaxFails)

Next ==
  \/ \E s \in Streams : AddRow(s)
  \/ \E s \in Streams : SetWait(s)
  \/ \E s \in Streams : SetColWidth(s)
  \/ \E s \in Streams : CloseFlush(s)
  \/ \E s \in Streams : CloseSignal(s)
  \/ \E c \in Consumers : WriteToSelect(c)
  \/ \E c \in Consumers : WriteToAttach(c)
  \/ \E c \in Consumers : WriteToReturn(c)

Spec == Init /\ [][Next]_vars

SpecFaulty == InitFaulty /\ [][Next]_vars

\* a call in progress goes on: the goroutine inside Close reaches
\* close(dw.done), the goroutine inside WriteTo takes the lock when it is free
\* and returns when the channel is closed.  Starting a call is up to the caller.
CallsProceed ==
  /\ WF_vars(\E s \in Streams : CloseSignal(s))
  /\ WF_vars(\E c \in Consumers : WriteToAttach(c))
  /\ WF_vars(\E c \in Consumers : WriteToReturn(c))

FairSpec == InitFaulty /\ [][Next]_vars /\ CallsProceed

FairSpecReliable == Init /\ [][Next]_vars /\ CallsProceed

\* File.WriteTo: the registry goroutine calls WriteTo on the registered
\* streams one at a time, in registration order, each with its own writer
RegistryPlan == [c \in {1} |-> <<[s |-> 1, w |-> 1], [s |-> 2, w |-> 2]>>]

\* two streams registered on one File, rows of one kind
InitRegistry ==
  \E m \in BufSizes :
    Setup({1, 2}, m, RegistryPlan, {1, 2}, {[values |-> <<MkCell("foo", 0, "")>>, opts |-> "none"]}, 0)

\* the producer adds rows and closes; the registry attaches
NextRegistry ==
  \/ \E s \in Streams : AddRow(s)
  \/ \E s \in Streams : CloseFlush(s)
  \/ \E s \in Streams : CloseSignal(s)
  \/ \E c \in Consumers : WriteToSelect(c)
  \/ \E c \in Consumers : WriteToAttach(c)
  \/ \E c \in Consumers : WriteToReturn(c)

SpecRegistry == InitRegistry /\ [][NextRegistry]_vars

\* two goroutines, each calling WriteTo once on the same stream with a
\* writer of its own
TwoSinksPlan == [c \in {1, 2} |-> <<[s |-> 1, w |-> c]>>]

InitTwoSinks ==
  \E m \in BufSizes :
    Setup({1}, m, TwoSinksPlan, {1, 2}, {[values |-> <<MkCell("foo", 0, "")>>, opts |-> "none"]}, 0)

SpecTwoSinks == InitTwoSinks /\ [][NextRegistry]_vars

\* ------------------------------------------------------------ claims
IsHeaderChunk(x) == x.k \in {"prolog", "<cols>", "<sheetData>"}
IsBodyChunk(x) == ~IsHeaderChunk(x)
IsRowOpen(x) == x.k = "<row"
HeadOf(q) == SelectSeq(q, IsHeaderChunk)
BodyOf(q) == SelectSeq(q, IsBodyChunk)
RowNumbers(q) == LET rows == SelectSeq(q, IsRowOpen) IN [i \in 1 .. Len(rows) |-> rows[i].r]
Count(q, x) == Cardinality({i \in DOMAIN q : q[i] = x})

\* h is one whole header: prolog, at most one <cols> block, <sheetData>
HeaderShape(h) ==
  /\ Len(h) \in {2, 3}
  /\ h[1] = XMLProlog
  /\ h[Len(h)] = SheetDataOpen
  /\ Len(h) = 3 => h[2].k = "<cols>"

\* the WriteTo calls of the plans, as (consumer, index) pairs
Calls == {ci \in Consumers \X {1, 2} : ci[2] \in DOMAIN plan[ci[1]]}
CallOf(ci) == plan[ci[1]][ci[2]]
HasReturned(ci) == cons[ci[1]].i > ci[2]

\* the last call the producer of s made is its only Close, which returned nil
ClosedOnce(s) ==
  /\ prod[s].pc = "idle"
  /\ prod[s].closes = 1
  /\ ret[s] = [op |-> "Close", err |-> "nil", n |-> 0]

\* header, every row chunk appended, closing elements
Document(s) == buildHeader(dw[s]) \o Appended(s)

\* C1: once Close and WriteTo(w) have both returned (every sink write having
\* succeeded), w holds header ++ all appended row bytes ++ closing elements,
\* whenever WriteTo started relative to the producer's calls.
C1_NoByteLost ==
  \A ci \in Calls :
    (HasReturned(ci) /\ ClosedOnce(CallOf(ci).s))
      => sink[CallOf(ci).w] = Document(CallOf(ci).s)

C4_HeaderOnce ==
  \A ci \in Calls :
    LET s == CallOf(ci).s
        q == sink[CallOf(ci).w]
    IN /\ Count(q, XMLProlog) <= 1
       /\ Count(q, SheetDataOpen) <= 1
       /\ HeadOf(Appended(s)) = <<>>
       /\ (dw[s].out = CallOf(ci).w /\ dw[s].bytesWritten > 0)
            => HeadOf(q) = buildHeader(dw[s])

C4_Witness ==
  /\ dw[1].cols # <<>>
  /\ dw[1].bytesWritten > Len(buildHeader(dw[1])) + 4
  /\ HeadOf(sink[1]) = buildHeader(dw[1])
  /\ prod[1].rows = 2

ColsIn(h) == IF Len(h) = 3 THEN h[2].cols ELSE <<>>

\* C5 (state): a sink that received a whole header holds at most one <cols>
\* block, before <sheetData>, made of directives SetColWidth accepted, in order;
\* the header a flush delivered holds all of them.
C5_ColsInHeader ==
  \A ci \in Calls :
    LET s == CallOf(ci).s
        q == sink[CallOf(ci).w]
        h == HeadOf(q)
    IN HeaderShape(h)
         => /\ Cardinality({i \in DOMAIN q : q[i].k = "<cols>"}) = (IF ColsIn(h) = <<>> THEN 0 ELSE 1)
            /\ IsPrefix(ColsIn(h), dw[s].cols)
            /\ (dw[s].out = CallOf(ci).w /\ dw[s].bytesWritten > 0) => ColsIn(h) = dw[s].cols

\* C5 (step): the directives change only while bytesWritten == 0, and a
\* SetColWidth that returns after bytes were written returns the error and
\* leaves them unchanged.
C5_ColsStep ==
  \A s \in Streams :
    /\ dw'[s].cols # dw[s].cols => dw[s].bytesWritten = 0
    /\ (ret'[s] # ret[s] /\ ret'[s].op = "SetColWidth" /\ dw[s].bytesWritten > 0)
         => (ret'[s].err = "written" /\ dw'[s].cols = dw[s].cols)

\* C5: column-width directives are mutated only while bytesWritten == 0; the
\* accepted ones appear once, in one <cols> block before <sheetData>; a
\* SetColWidth after the first flush fails and changes nothing.
C5_ColWidthBeforeFlush == []C5_ColsInHeader /\ [][C5_ColsStep]_vars

C5_Witness ==
  /\ dw[1].cols # <<>>
  /\ dw[1].bytesWritten > 0
  /\ ret[1] = [op |-> "SetColWidth", err |-> "written", n |-> 0]
  /\ ColsIn(HeadOf(sink[1])) = dw[1].cols

\* the call sequence of s so far ended with its only Close and WriteTo(w)
\* attached w before any row was added and before Close was called
EarlyRun(ci) ==
  /\ HasReturned(ci)
  /\ wret[CallOf(ci).w].path = "attach"
  /\ wret[CallOf(ci).w].early
  /\ ClosedOnce(CallOf(ci).s)

\* what a writer attached to the twin after its Close receives
LateOutput(s) == Replay(twin[s], <<-1, -1>>).sent

C7_Step ==
  \A ci \in Calls :
    LET c == ci[1]
        s == CallOf(ci).s
    IN cons[c].i = ci[2] =>
         /\ (cons[c].pc = "lock" /\ cons'[c].pc = "wait") => dw'[s].out = CallOf(ci).w
         /\ (cons[c].pc = "wait" /\ cons'[c] # cons[c]) => (dw[s].done /\ dw'[s].done)

C7_ReturnAfterDone == [][C7_Step]_vars

C7_Witness ==
  /\ wret[1].path = "attach"
  /\ cons[1].pc = "finished"
  /\ sink[1] # <<>>

\* C10: an AddRow made in wait mode delivers nothing, whatever the buffer
\* length and the sink: bytesWritten is unchanged and the count returned is
\* the whole buffer length.
C10_Step ==
  \A s \in Streams :
    (dw'[s].rowCount # dw[s].rowCount /\ dw[s].waitMode)
      => /\ sink' = sink
         /\ dw'[s].bytesWritten = dw[s].bytesWritten
         /\ ret'[s].op = "AddRow"
         /\ ret'[s].n = Len(dw'[s].buf)
         /\ Len(dw'[s].buf) > Len(dw[s].buf)
         /\ IsPrefix(dw[s].buf, dw'[s].buf)

C10_WaitModeNoFlush == [][C10_Step]_vars

C10_Witness ==
  /\ dw[1].waitMode
  /\ dw[1].out # NoWriter
  /\ ret[1].op = "AddRow"
  /\ ret[1].n > dw[1].maxBufferSize
  /\ ret[1].n = Len(dw[1].buf)
  /\ dw[1].bytesWritten = 0

\* a WriteTo call has started and not returned
Pending(ci) == cons[ci[1]].i = ci[2] /\ cons[ci[1]].pc \in {"lock", "wait"}

\* C8: once the producer has called Close, every pending WriteTo returns,
\* whether or not sink writes failed.
C8_PendingWriteToReturns ==
  (Pending(<<1, 1>>) /\ prod[1].closes > 0) ~> HasReturned(<<1, 1>>)

\* C9: when the registry pass has finished and the producer has added
\* MaxRows rows to every stream and closed it, each stream's sink holds its
\* whole document and the count reported for it is the length of what was sent.
C9_RegistryComplete ==
  (/\ \A c \in Consumers : cons[c].pc = "finished"
   /\ \A s \in Streams : ClosedOnce(s) /\ prod[s].rows = MaxRows)
    => \A ci \in Calls :
         /\ sink[CallOf(ci).w] = Document(CallOf(ci).s)
         /\ RowNumbers(sink[CallOf(ci).w]) = [i \in 1 .. MaxRows |-> i]
         /\ wret[CallOf(ci).w].n = Len(sink[CallOf(ci).w])

\* an AddRow step of the producer of s
AddRowStep(s) == dw'[s].rowCount # dw[s].rowCount

\* the length the buffer of s has when the AddRow of this step tests it
GrownLen(s) == Len(dw[s].buf) + Len(Appended(s)') - Len(Appended(s))

\* the AddRow of this step runs with a sink attached and wait mode off
FlushMode(s) == AddRowStep(s) /\ dw[s].out # NoWriter /\ ~dw[s].waitMode

\* C11 as stated: with a sink attached, wait mode off and writes succeeding,
\* every AddRow leaves at most maxBufferSize in the buffer, and one whose
\* buffer exceeds maxBufferSize drains it and returns 0.
C11_EveryAddRowStep ==
  \A s \in Streams :
    FlushMode(s)
      => /\ Len(dw'[s].buf) <= dw[s].maxBufferSize
         /\ GrownLen(s) > dw[s].maxBufferSize
              => (dw'[s].buf = <<>> /\ ret'[s].n = 0)

C11_EveryAddRowDrains == [][C11_EveryAddRowStep]_vars

\* C11 amended: the same for every AddRow that returns no error from the
\* row-options or value encoder (such a call returns before the threshold test).
C11_Step ==
  \A s \in Streams :
    (FlushMode(s) /\ ret'[s].err = "nil")
      => /\ ret'[s].op = "AddRow"
         /\ Len(dw'[s].buf) <= dw[s].maxBufferSize
         /\ ret'[s].n = Len(dw'[s].buf)
         /\ GrownLen(s) > dw[s].maxBufferSize
              => /\ dw'[s].buf = <<>>
                 /\ ret'[s].n = 0
                 /\ sink'[dw[s].out] = sink[dw[s].out] \o
                       (IF dw[s].bytesWritten = 0 THEN buildHeader(dw[s]) ELSE <<>>) \o
                       dw[s].buf \o Drop(Appended(s)', Len(Appended(s)))

C11_AddRowDrains == [][C11_Step]_vars

C11_Witness ==
  /\ ret[1] = [op |-> "AddRow", err |-> "nil", n |-> 0]
  /\ dw[1].out # NoWriter
  /\ ~dw[1].waitMode
  /\ prod[1].rows = 2
  /\ Len(BodyOf(sink[1])) > 4
  /\ dw[1].buf = <<>>

\* C12 (state): what a SetWait left behind, seen before the next call starts
C12_AfterSetWait ==
  \A s \in Streams :
    prod[s].pc = "idle" =>
    /\ ret[s].op = "SetWait(false)" => (ret[s].err = "nil" /\ ~dw[s].waitMode)
    /\ (ret[s].op = "SetWait(true)" /\ ret[s].err = "nil")
         => (dw[s].waitMode /\ dw[s].bytesWritten = 0)
    /\ (ret[s].op = "SetWait(true)" /\ ret[s].err # "nil") => dw[s].bytesWritten > 0

\* C12 (step): SetWait(true) fails and changes nothing when bytesWritten > 0
\* and succeeds when bytesWritten = 0; SetWait(false) succeeds; wait mode is
\* never switched on once bytes were written.
C12_Step ==
  \A s \in Streams :
    /\ (ret'[s] # ret[s] /\ ret'[s].op = "SetWait(true)")
         => IF dw[s].bytesWritten > 0
              THEN ret'[s].err = "written" /\ dw'[s] = dw[s]
              ELSE ret'[s].err = "nil" /\ dw'[s].waitMode
    /\ (ret'[s] # ret[s] /\ ret'[s].op = "SetWait(false)")
         => (ret'[s].err = "nil" /\ ~dw'[s].waitMode)
    /\ (dw'[s].waitMode /\ ~dw[s].waitMode) => dw[s].bytesWritten = 0

\* C12: SetWait(true) returns an error and leaves waitMode unchanged whenever
\* bytesWritten > 0 and succeeds whenever bytesWritten = 0; SetWait(false)
\* always succeeds and sets waitMode to false.
C12_SetWait == []C12_AfterSetWait /\ [][C12_Step]_vars

C12_Witness ==
  /\ ret[1] = [op |-> "SetWait(true)", err |-> "written", n |-> 0]
  /\ dw[1].bytesWritten > 0
  /\ ~dw[1].waitMode
  /\ prod[1].rows > 0

\* a producer call on s whose flush got an error from the sink in this step
FailedFlush(s) == failsLeft' < failsLeft /\ prod'[s] # prod[s]

\* the buffer of s as the flush of this step finds it
GrownBuf(s) == dw[s].buf \o Drop(Appended(s)', Len(Appended(s)))

\* C13 (step): a failed flush returns the error to the caller of AddRow or
\* Close and keeps the whole buffer; a flush that then succeeds hands the
\* whole retained buffer to the sink.
C13_Step ==
  \A s \in Streams :
    /\ FailedFlush(s)
         => /\ ret'[s].err = "write"
            /\ ret'[s].op \in {"AddRow", "Close"}
            /\ dw'[s].buf = GrownBuf(s)
    /\ (prod'[s] # prod[s] /\ dw[s].out # NoWriter /\ wfail[dw[s].out]
          /\ dw'[s].buf = <<>> /\ GrownBuf(s) # <<>>)
         => /\ Len(sink'[dw[s].out]) >= Len(GrownBuf(s))
            /\ Drop(sink'[dw[s].out], Len(sink'[dw[s].out]) - Len(GrownBuf(s))) = GrownBuf(s)

\* C13 (state): no flush attempt of the caller is left waiting for the mutex
C13_FlushCompletes == \A s \in Streams : prod[s].pc # "stuck"

C13_StepHolds == [][C13_Step]_vars

\* C13: when a sink write fails during a flush triggered by AddRow or Close,
\* the error is returned to that caller, the buffer is not truncated and no
\* buffered byte is lost: a later flush attempt completes and delivers the
\* retained bytes.
C13_FailedFlushRetained == []C13_FlushCompletes /\ [][C13_Step]_vars

\* in q every row start tag is terminated and followed, before the next
\* row start tag, by its closing tag
RowsClosed(q) ==
  \A i \in DOMAIN q :
    IsRowOpen(q[i]) =>
      \E j \in (i + 1) .. Len(q) :
        /\ q[j] = RowClose
        /\ \A k \in (i + 1) .. (j - 1) : q[k].k \notin {"<row", "</row>"}
        /\ \E g \in (i + 1) .. (j - 1) :
             q[g] = RowGT /\ \A k \in (i + 1) .. (g - 1) : q[k].k = "attrs"

\* C14: an AddRow whose value encoder fails appends the row start and, last,
\* the row's closing tag, delivers nothing, leaves the stream open, and a
\* buffer whose rows were all closed stays so.
C14_Step ==
  \A s \in Streams :
    (AddRowStep(s) /\ ret'[s].err = "encode")
      => LET new == Drop(Appended(s)', Len(Appended(s)))
         IN /\ ret'[s].op = "AddRow"
            /\ Len(new) >= 3
            /\ new[1] = RowOpen(dw'[s].rowCount)
            /\ new[Len(new)] = RowClose
            /\ RowsClosed(new)
            /\ dw'[s].buf = dw[s].buf \o new
            /\ ret'[s].n = Len(dw'[s].buf)
            /\ sink' = sink
            /\ dw'[s].bytesWritten = dw[s].bytesWritten
            /\ dw'[s].done = dw[s].done
            /\ dw'[s].placeholder = dw[s].placeholder
            /\ prod'[s].pc = "idle"
            /\ RowsClosed(dw[s].buf) => RowsClosed(dw'[s].buf)

C14_EncoderErrorClosesRow == [][C14_Step]_vars

C14_Witness ==
  /\ ret[1].op = "AddRow" /\ ret[1].err = "encode"
  /\ dw[1].out # NoWriter
  /\ ~dw[1].waitMode
  /\ ~dw[1].done
  /\ Len(dw[1].buf) > dw[1].maxBufferSize
  /\ dw[1].buf[Len(dw[1].buf)] = RowClose
  /\ RowsClosed(dw[1].buf)

\* C15: over any sequence of calls, a second Close included, close(done)
\* runs at most once (no close of a closed channel) and the closing elements
\* are appended, and delivered, at most once.
C15_CloseOnce ==
  \A s \in Streams :
    /\ prod[s].pc # "panicked"
    /\ Count(Appended(s), SheetDataClose) <= 1
    /\ Count(Appended(s), WorksheetClose) <= 1
    /\ \A w \in Writers : Count(sink[w], WorksheetClose) <= 1

\* C16 (step): a recorded sink is never replaced
C16_Step == \A s \in Streams : dw[s].out # NoWriter => dw'[s].out = dw[s].out

\* C16 (state): at most one writer was given the replay of a completed stream
C16_OneReplay ==
  \A s \in Streams :
    Cardinality({ci \in Calls : /\ CallOf(ci).s = s
                                /\ wret[CallOf(ci).w].path = "replay"
                                /\ wret[CallOf(ci).w].err = "nil"}) <= 1

\* C16: the sink of a stream is set at most once: a second WriteTo before
\* completion does not replace the recorded sink, and after completion the
\* buffered content is replayed to a new writer at most once.
C16_SinkSetOnce == []C16_OneReplay /\ [][C16_Step]_vars

C16_SinkKept == [][C16_Step]_vars

\* C17 (step): an AddRow made after Close has completed appends nothing and
\* delivers nothing
C17_Step ==
  \A s \in Streams :
    (dw[s].done /\ AddRowStep(s)) => (Appended(s)' = Appended(s) /\ sink' = sink)

\* C17 (state): with Close called once, nothing follows the closing
\* worksheet tag
C17_NothingAfterClose ==
  \A s \in Streams :
    prod[s].closes <= 1 =>
      \A i \in DOMAIN Appended(s) :
        Appended(s)[i] = WorksheetClose => i = Len(Appended(s))

\* C17: after Close has completed no AddRow call appends row bytes to the
\* buffer or delivers bytes to the sink, so no row content ever follows the
\* closing worksheet tag.
C17_NoRowAfterClose ==
  [][C17_Step]_vars /\ []C17_NothingAfterClose

\* the step of a Close call up to the return of its flush
CloseStep(s) == prod'[s].closes # prod[s].closes

\* C18 (step): Close appends the closing elements and flushes whatever the
\* wait mode and the buffer length: with a sink attached the sink is handed
\* the whole buffer, which ends with the worksheet-close tag, and the buffer
\* is left empty; the call then deletes the placeholder and closes done.
C18_Step ==
  \A s \in Streams :
    /\ CloseStep(s)
         => /\ Appended(s)' = Appended(s) \o ClosingElements
            /\ prod'[s].pc = "closing"
            /\ dw[s].out # NoWriter
                 => /\ dw'[s].buf = <<>>
                    /\ sink'[dw[s].out] = sink[dw[s].out] \o
                          (IF dw[s].bytesWritten = 0 THEN buildHeader(dw[s]) ELSE <<>>) \o
                          dw[s].buf \o ClosingElements
                    /\ dw'[s].bytesWritten = dw[s].bytesWritten + Len(sink'[dw[s].out])
                                                               - Len(sink[dw[s].out])
    /\ (prod[s].pc = "closing" /\ prod'[s].pc # "closing")
         => /\ dw'[s].done /\ ~dw'[s].placeholder
            /\ dw'[s].buf = dw[s].buf
            /\ sink' = sink

\* C18 (state): once Close has returned nil the signal is raised and the
\* placeholder is gone
C18_AfterClose ==
  \A s \in Streams :
    (prod[s].pc = "idle" /\ ret[s] = [op |-> "Close", err |-> "nil", n |-> 0])
      => (dw[s].done /\ ~dw[s].placeholder)

\* C18: a successful Close appends the closing elements, forces a flush even
\* in wait mode or below the threshold, deletes the placeholder and raises the
\* completion signal; with a sink attached the buffer is then empty and the
\* sink output ends with the worksheet-close tag.
C18_CloseFlushes == []C18_AfterClose /\ [][C18_Step]_vars

C18_Witness ==
  /\ ClosedOnce(1)
  /\ dw[1].waitMode
  /\ dw[1].maxBufferSize = LargeBuf
  /\ prod[1].rows = 1
  /\ wret[1].early
  /\ dw[1].buf = <<>>
  /\ dw[1].done /\ ~dw[1].placeholder
  /\ sink[1] = Document(1)
  /\ sink[1][Len(sink[1])] = WorksheetClose

\* the WriteTo call ci returns in this step
ReturnStep(ci) == HasReturned(ci)' /\ ~HasReturned(ci)

\* C19: the count a WriteTo call returns is the number of chunks the writer
\* it was given has received: bytesWritten for an attach before completion,
\* header length plus buffer length for a replay after completion.
C19_Step ==
  \A ci \in Calls :
    ReturnStep(ci)
      => LET w == CallOf(ci).w
             d == dw[CallOf(ci).s]
         IN /\ wret'[w].n = Len(sink'[w])
            /\ wret'[w].path = "attach" => wret'[w].n = d.bytesWritten
            /\ (wret'[w].path = "replay" /\ wret'[w].err = "nil")
                 => wret'[w].n = Len(buildHeader(d)) + Len(d.buf)

C19_CountIsDelivered == [][C19_Step]_vars

\* C20 as stated: a WriteTo call that finds the stream completed returns in
\* the same step (it never waits) after one write to its writer: the header
\* if no flush ever reached a sink, followed by the remaining buffer.
C20_WriteStep ==
  \A ci \in Calls :
    LET c == ci[1]
        w == CallOf(ci).w
        d == dw[CallOf(ci).s]
    IN (cons[c].i = ci[2] /\ cons[c].pc = "start" /\ d.done /\ cons'[c] # cons[c])
         => /\ HasReturned(ci)'
            /\ wret'[w].err = "nil"
            /\ sink'[w] = sink[w] \o
                  (IF d.bytesWritten = 0 THEN buildHeader(d) ELSE <<>>) \o d.buf
            /\ wret'[w].n = Len(sink'[w]) - Len(sink[w])

C20_AlwaysWrites == [][C20_WriteStep]_vars

\* C20 amended: such a call never waits; if no flush ever reached a sink it
\* writes the header followed by the buffer and returns their length, and if
\* a flush did reach a sink it writes nothing and returns 0 with an error.
C20_Step ==
  \A ci \in Calls :
    LET c == ci[1]
        w == CallOf(ci).w
        d == dw[CallOf(ci).s]
    IN (cons[c].i = ci[2] /\ cons[c].pc = "start" /\ d.done /\ cons'[c] # cons[c])
         => /\ HasReturned(ci)'
            /\ wret'[w].path = "replay"
            /\ dw' = dw
            /\ IF d.bytesWritten = 0
                 THEN /\ wret'[w].err = "nil"
                      /\ sink'[w] = sink[w] \o buildHeader(d) \o d.buf
                      /\ wret'[w].n = Len(buildHeader(d)) + Len(d.buf)
                 ELSE /\ wret'[w].err = "written"
                      /\ sink'[w] = sink[w]
                      /\ wret'[w].n = 0

C20_ReplayOnCompleted == [][C20_Step]_vars

C20_Witness ==
  /\ wret[2] = [path |-> "replay", err |-> "written", n |-> 0, early |-> FALSE]
  /\ sink[2] = <<>>
  /\ wret[1].path = "attach"
  /\ sink[1] = Document(1)
  /\ prod[1].rows = 2
  /\ \A c \in Consumers : cons[c].pc = "finished"

\* (min, max, width) is within the limits SetColWidth accepts
ColInRange(min, max, width) ==
  /\ 1 <= min /\ min <= TotalColumns
  /\ 1 <= max /\ max <= TotalColumns
  /\ width <= MaxColumnWidth

\* C21 (state): in every state of a writer, SetColWidth refuses each input
\* outside the limits, and while bytesWritten = 0 accepts each input within
\* them, its directive carrying the two column numbers in ascending order.
C21_Decision ==
  \A s \in Streams :
    \A in \in ColInputs :
      LET e == ColWidthError(dw[s], in[1], in[2], in[3])
          d == ColDirective(in[1], in[2], in[3])
      IN /\ ~ColInRange(in[1], in[2], in[3]) => e # "nil"
         /\ (ColInRange(in[1], in[2], in[3]) /\ dw[s].bytesWritten = 0)
              => /\ e = "nil"
                 /\ d.min <= d.max
                 /\ {d.min, d.max} = {in[1], in[2]}
                 /\ d.width = in[3]

\* C21 (step): a SetColWidth that returns an error leaves the directives
\* unchanged; the directives change only by one directive appended by a
\* SetColWidth that returns nil, with bytesWritten = 0, and that directive is
\* within the limits with min <= max.
C21_Step ==
  \A s \in Streams :
    /\ (ret'[s] # ret[s] /\ ret'[s].op = "SetColWidth" /\ ret'[s].err # "nil")
         => dw'[s].cols = dw[s].cols
    /\ (ret'[s] # ret[s] /\ ret'[s].op = "SetColWidth" /\ ret'[s].err = "nil")
         => Len(dw'[s].cols) = Len(dw[s].cols) + 1
    /\ dw'[s].cols # dw[s].cols
         => /\ dw[s].bytesWritten = 0
            /\ ret'[s] = [op |-> "SetColWidth", err |-> "nil", n |-> 0]
            /\ Len(dw'[s].cols) = Len(dw[s].cols) + 1
            /\ Take(dw'[s].cols, Len(dw[s].cols)) = dw[s].cols
            /\ LET d == dw'[s].cols[Len(dw'[s].cols)]
               IN /\ ColInRange(d.min, d.max, d.width)
                  /\ d.min <= d.max
                  /\ \E in \in ColInputs : d = ColDirective(in[1], in[2], in[3])

\* C21: SetColWidth fails and leaves the directives unchanged when min or
\* max is below 1 or above the column limit or the width above the maximum;
\* otherwise, while bytesWritten = 0, it appends exactly one directive whose
\* min is not greater than its max (swapped when given inverted).
C21_SetColWidth == []C21_Decision /\ [][C21_Step]_vars

C21_Witness ==
  /\ dw[1].cols = <<[k |-> "<col", min |-> 1, max |-> 3, width |-> 20]>>
  /\ ret[1] = [op |-> "SetColWidth", err |-> "ErrColumnNumber", n |-> 0]
  /\ dw[1].bytesWritten = 0
  /\ prod[1].rows > 0

\* the xlsxC values the cell encoder is handed: every style id, with and
\* without type, formula, value and xml:space
EncoderCells ==
  [S : 0 .. MaxStyle, T : {"", "str"}, F : {"", "SUM(A1)"}, V : {"", "foo"},
   XMLSpace : {"", "preserve"}]

\* the <c> chunks of q
CellsOf(q) == {q[i] : i \in {j \in DOMAIN q : q[j].k = "c"}}

\* C22: the cell encoder emits the style attribute exactly for a style id
\* other than 0, with that id; in the output of a stream the cell given
\* style 1 ("bar ") carries s = 1 and the cell given style 0 ("foo") none.
C22_StyleAttr ==
  /\ \A c \in EncoderCells :
       LET x == appendCellNoRef(<<>>, c)
       IN /\ Len(x) = 1
          /\ x[1].s = (IF c.S # 0 THEN <<c.S>> ELSE <<>>)
  /\ \A s \in Streams :
       \A x \in CellsOf(Appended(s)) :
         /\ x.v = <<"bar ">> => x.s = <<1>>
         /\ x.v = <<"foo">> => x.s = <<>>
  /\ \A w \in Writers :
       \A x \in CellsOf(sink[w]) : x.s # <<0>> /\ (x.v = <<"bar ">> => x.s = <<1>>)

C22_Witness ==
  /\ \E x \in CellsOf(sink[1]) : x.s = <<1>> /\ x.v = <<"bar ">>
  /\ \E x \in CellsOf(sink[1]) : x.s = <<>> /\ x.v = <<"foo">>

\* C23: between the steps of the calls, that is whenever tryFlush has
\* returned, the mutex of the stream is free, so no producer call is left
\* waiting in Lock and a WriteTo waiting for the lock can take it.
C23_MutexFree ==
  \A s \in Streams :
    /\ ~dw[s].mu
    /\ prod[s].pc # "stuck"
    /\ \A c \in Consumers :
         (cons[c].pc = "lock" /\ Call(c).s = s) => ENABLED WriteToAttach(c)

\* the closing elements, and the appended chunks that are not closing elements
IsClosingChunk(x) == x.k \in {"</sheetData>", "</worksheet>"}
IsRowChunk(x) == ~IsClosingChunk(x)
RowBytes(s) == SelectSeq(Appended(s), IsRowChunk)

\* the producer made no call after the Close that completed the stream
NoCallAfterClose(s) ==
  dw[s].done => (prod[s].pc = "idle" /\ ret[s] = [op |-> "Close", err |-> "nil", n |-> 0])

\* C24: whatever writes failed or were cut short and whatever the caller
\* retried, what a sink holds is a prefix of header ++ row bytes ++ closing
\* elements: each header chunk, each row and each closing element is there at
\* most once.
C24_SinkIsPrefix ==
  \A ci \in Calls :
    LET q == sink[CallOf(ci).w]
        s == CallOf(ci).s
    IN NoCallAfterClose(s) =>
         /\ q = HeadOf(q) \o BodyOf(q)
         /\ Count(q, XMLProlog) <= 1 /\ Count(q, SheetDataOpen) <= 1
         /\ IsPrefix(BodyOf(q), RowBytes(s) \o ClosingElements)
         /\ \A x \in {SheetDataClose, WorksheetClose} : Count(q, x) <= 1

\* the row start tag at position i of q is terminated and has its closing tag
RowClosedAt(q, i) ==
  \E j \in (i + 1) .. Len(q) :
    /\ q[j] = RowClose
    /\ \A k \in (i + 1) .. (j - 1) : q[k].k \notin {"<row", "</row>"}
    /\ \E g \in (i + 1) .. (j - 1) :
         q[g] = RowGT /\ \A k \in (i + 1) .. (g - 1) : q[k].k = "attrs"

\* the numbers of the rows of q that are complete
CompleteRows(q) == {q[i].r : i \in {j \in DOMAIN q : IsRowOpen(q[j]) /\ RowClosedAt(q, j)}}

\* C25: after every AddRow return, with or without an error, every row opened
\* in the buffer is terminated and closed, and the complete rows emitted so
\* far are numbered 1, 2, ... with no number missing.
C25_RowsComplete ==
  \A s \in Streams :
    /\ RowsClosed(dw[s].buf)
    /\ CompleteRows(Appended(s)) = 1 .. Cardinality(CompleteRows(Appended(s)))

====
